---- MODULE Spec2Model ----
(***************************************************************************)
(* BrowseMe: the browser tool set built by createBrowserTools(page)        *)
(* (src/createBrowserTools.js).  Each tool's execute() is one action: it   *)
(* reads the live page, calls Playwright primitives (each of which may     *)
(* throw), and ends by returning a value or by raising.                    *)
(*                                                                         *)
(* Strings that the code inspects (targets, accessible names, selectors)   *)
(* are sequences of one-character strings.  Strings the code only builds   *)
(* (outcome messages) are sequences of pieces: the literal parts of the    *)
(* template, and the interpolated values.                                  *)
(***************************************************************************)
EXTENDS Integers, Sequences, FiniteSets, TLC

VARIABLES
    page,   \* the document of the session's page: its elements in order
    last,   \* the session's tool call in flight: arguments, calls, outcome
    now,    \* the clock reading new Date() returns
    files,  \* the screenshots directory: path -> the session that wrote it
    proc,   \* the node process: "running" or "exited"
    task,   \* per session, where its runAgentTask stands and its browser
    peer    \* the page and the tool call in flight of the second session

vars == <<page, last, now, files, proc, task, peer>>

fsVars  == <<now, files>>
cliVars == <<proc, task, peer>>

(***************************************************************************)
(* Bounds                                                                  *)
(***************************************************************************)
\* The longest page (number of elements in document order).
MaxElems == 2

\* The clock readings are 0..MaxClock.
MaxClock == 2

(***************************************************************************)
(* Strings                                                                 *)
(***************************************************************************)
\* String.prototype.toLowerCase / the "i" flag, on one character.
LowerChar(c) ==
    CASE c = "S" -> "s"
      [] c = "F" -> "f"
      [] c = "P" -> "p"
      [] OTHER -> c

ToLowerCase(s) == [i \in 1..Len(s) |-> LowerChar(s[i])]

\* String.prototype.includes: sub occurs in s as a contiguous substring.
Includes(s, sub) ==
    \E i \in 0..(Len(s) - Len(sub)) : SubSeq(s, i + 1, i + Len(sub)) = sub

(***************************************************************************)
(* new RegExp(source, "i").  The sources that occur are a target, or       *)
(* "^" target "$"; a target is made of letters and of "(" and ")".         *)
(* A letter matches itself in either case, ( ) delimit a group, and an     *)
(* unbalanced group is a SyntaxError thrown by the constructor.            *)
(***************************************************************************)
RECURSIVE Depth(_, _)
\* The group nesting depth after the first n characters; -1 once a ")"
\* closes a group that was never opened.
Depth(src, n) ==
    IF n = 0 THEN 0
    ELSE LET d == Depth(src, n - 1)
         IN  IF d < 0 THEN -1
             ELSE IF src[n] = "(" THEN d + 1
             ELSE IF src[n] = ")" THEN d - 1
             ELSE d

RegExpValid(src) == Depth(src, Len(src)) = 0

\* The characters of the pattern that consume input.
RegExpAtoms(src) == SelectSeq(src, LAMBDA c : c \notin {"(", ")", "^", "$"})

\* RegExp.prototype.test of a valid pattern, flag "i".
RegExpTest(src, s) ==
    LET anchored == Len(src) >= 2 /\ src[1] = "^" /\ src[Len(src)] = "$"
        atoms    == ToLowerCase(RegExpAtoms(src))
    IN  IF anchored THEN ToLowerCase(s) = atoms
        ELSE Includes(ToLowerCase(s), atoms)

(***************************************************************************)
(* The live page: its elements in document order.                          *)
(***************************************************************************)
Str(a)     == <<a>>
Str2(a, b) == <<a, b>>

Elements ==
    { [role |-> "button", name |-> Str("S"),       tag |-> "b", w |-> 1, h |-> 1],
      [role |-> "button", name |-> Str2("s", "("), tag |-> "b", w |-> 1, h |-> 1],
      [role |-> "button", name |-> Str("f"),       tag |-> "b", w |-> 0, h |-> 1],
      [role |-> "link",   name |-> Str2("S", "f"), tag |-> "a", w |-> 1, h |-> 1],
      [role |-> "link",   name |-> Str("s"),       tag |-> "a", w |-> 1, h |-> 1],
      [role |-> "none",   name |-> Str("s"),       tag |-> "p", w |-> 1, h |-> 1],
      [role |-> "none",   name |-> Str("f"),       tag |-> "p", w |-> 1, h |-> 1] }

Pages == UNION { [1..n -> Elements] : n \in 0..MaxElems }

\* What the planner passes as target / selector / text.
Targets ==
    { <<>>, Str("s"), Str("S"), Str2("S", "f"), Str2("s", "("), Str("("),
      Str2("(", ")"), Str("p"), Str("q") }

(***************************************************************************)
(* Outcome text: the literal parts of a template and the values            *)
(* interpolated into it, in order.  The first word of the template is a    *)
(* piece of its own.                                                       *)
(***************************************************************************)
Lit(s)   == [k |-> "lit",   s |-> s,  v |-> <<>>, n |-> 0]
Val(v)   == [k |-> "val",   s |-> "", v |-> v,    n |-> 0]
Num(n)   == [k |-> "num",   s |-> "", v |-> <<>>, n |-> n]
Cause(s) == [k |-> "cause", s |-> s,  v |-> <<>>, n |-> 0]

\* err.message of what the primitives and constructors throw.
RegExpError  == "Invalid regular expression"
SelectorError == "Unexpected token while parsing css selector"
TimeoutError == "Timeout exceeded"

\* One awaited call on the page, in the order the handler made it.
Call(prim, by, arg, n, res) ==
    [prim |-> prim, by |-> by, arg |-> arg, n |-> n, res |-> res]

\* How an invocation of execute() ended.
\*   branch "return": the handler's normal return; "notfound": the return
\*   after the last strategy; "catch": the return of the catch block;
\*   "raise": the promise rejected (no catch block around the throw).
End(calls, type, text, branch, by) ==
    [calls |-> calls, out |-> [type |-> type, text |-> text],
     branch |-> branch, by |-> by]

Idle ==
    [tool |-> "none", args |-> <<>>, calls |-> <<>>,
     out |-> [type |-> "none", text |-> <<>>], branch |-> "none", by |-> "none"]

Invocation(tool, args, e) ==
    [tool |-> tool, args |-> args, calls |-> e.calls, out |-> e.out,
     branch |-> e.branch, by |-> e.by]

\* The sessions: the one whose page and calls are page and last, and a
\* second one started by another input line.
Sessions == { "A", "B" }

\* The planner of session A makes a tool call while its agent run is under
\* way, and awaits each call before it makes the next one.
Ready ==
    /\ proc = "running"
    /\ task["A"].pc = "run"
    /\ last = Idle

\* The k-th awaited primitive of an invocation throws iff failAt = k
\* (0: none does).  After a throw the handler makes no further call, so one
\* number describes every way the environment can fail an invocation.
Throws(failAt, calls) == failAt = Len(calls) + 1

(***************************************************************************)
(* Locators (Playwright): the indices of the matching elements; first() is *)
(* the least, count() their number.                                        *)
(***************************************************************************)
GetByRole(pg, role, src) ==
    { i \in 1..Len(pg) : pg[i].role = role /\ RegExpTest(src, pg[i].name) }

GetByText(pg, src) ==
    { i \in 1..Len(pg) : RegExpTest(src, pg[i].name) }

\* A selector of letters is a type selector; ( ) outside a functional
\* pseudo-class do not parse.
CssValid(sel) == \A i \in 1..Len(sel) : sel[i] \notin {"(", ")"}

Locator(pg, sel) ==
    { i \in 1..Len(pg) : Str(pg[i].tag) = ToLowerCase(sel) }

\* Mutant of First: the last match in document order.
First_Last(matches) == CHOOSE i \in matches : \A j \in matches : i >= j

First(matches) == CHOOSE i \in matches : \A j \in matches : i <= j

(***************************************************************************)
(* Click_Element.execute({ target })                                       *)
(***************************************************************************)
\* The locator each strategy builds, as the set of elements it matches.
StrategyMatches(pg, by, target) ==
    CASE by = "button"  -> GetByRole(pg, "button", target)
      [] by = "link"    -> GetByRole(pg, "link", target)
      [] by = "element" -> GetByText(pg, <<"^">> \o target \o <<"$">>)
      [] by = "CSS"     -> Locator(pg, target)

\* Building the locator throws (new RegExp) before any call on the page.
LocatorThrows(by, target) ==
    CASE by = "CSS"     -> FALSE
      [] by = "element" -> ~RegExpValid(<<"^">> \o target \o <<"$">>)
      [] OTHER          -> ~RegExpValid(target)

\* The words of the success message after "Successfully clicked ".
Clicked(by) ==
    CASE by = "button"  -> "button with text: "
      [] by = "link"    -> "link with text: "
      [] by = "element" -> "element with text: "
      [] by = "CSS"     -> "CSS selector: "

\* Mutant of ClickCaught: the catch block's message without the failure prefix.
ClickCaught_Unprefixed(calls, target, cause) ==
    [fin |-> TRUE] @@
    End(calls, "string",
        <<Lit("Could"), Lit(" not click \""), Val(target),
          Lit("\". Details: "), Cause(cause)>>,
        "catch", "none")

\* catch (err): return `Error: Failed to click "${target}". Details: ${err.message}`
ClickCaught(calls, target, cause) ==
    [fin |-> TRUE] @@
    End(calls, "string",
        <<Lit("Error:"), Lit(" Failed to click \""), Val(target),
          Lit("\". Details: "), Cause(cause)>>,
        "catch", "none")

\* Mutant of Attempt: a click that throws is swallowed and the cascade goes on
\* with the next strategy.
Attempt_FallThrough(pg, target, by, failAt, calls) ==
    IF LocatorThrows(by, target)
    THEN ClickCaught(calls, target, RegExpError)
    ELSE
    LET matches == StrategyMatches(pg, by, target)
        counted == Append(calls,
                     Call("count", by, target, Cardinality(matches), "ok")) IN
    IF (by = "CSS" /\ ~CssValid(target)) \/ Throws(failAt, calls)
    THEN ClickCaught(Append(calls, Call("count", by, target, 0, "throw")),
                     target, TimeoutError)
    ELSE IF Cardinality(matches) > 0 /\ ~Throws(failAt, counted)
    THEN [fin |-> TRUE] @@
         End(Append(counted, Call("click", by, target, First(matches), "ok")),
             "string",
             <<Lit("Successfully"), Lit(" clicked "), Lit(Clicked(by)), Val(target)>>,
             "return", by)
    ELSE IF Cardinality(matches) > 0
    THEN [fin |-> FALSE] @@
         End(Append(counted, Call("click", by, target, First(matches), "throw")),
             "none", <<>>, "none", "none")
    ELSE [fin |-> FALSE] @@ End(counted, "none", <<>>, "none", "none")

\* One block of the cascade: build the locator, await count(), and when it is
\* positive await first().click() and return.  fin = FALSE: fall through to
\* the next block.
Attempt(pg, target, by, failAt, calls) ==
    IF LocatorThrows(by, target)
    THEN ClickCaught(calls, target, RegExpError)
    ELSE
    LET matches == StrategyMatches(pg, by, target) IN
    IF by = "CSS" /\ ~CssValid(target)
    THEN ClickCaught(Append(calls, Call("count", by, target, 0, "throw")),
                     target, SelectorError)
    ELSE IF Throws(failAt, calls)
    THEN ClickCaught(Append(calls, Call("count", by, target, 0, "throw")),
                     target, TimeoutError)
    ELSE
    LET counted == Append(calls,
                     Call("count", by, target, Cardinality(matches), "ok")) IN
    IF Cardinality(matches) > 0
    THEN IF Throws(failAt, counted)
         THEN ClickCaught(
                Append(counted, Call("click", by, target, First(matches), "throw")),
                target, TimeoutError)
         ELSE [fin |-> TRUE] @@
              End(Append(counted, Call("click", by, target, First(matches), "ok")),
                  "string",
                  <<Lit("Successfully"), Lit(" clicked "), Lit(Clicked(by)),
                    Val(target)>>,
                  "return", by)
    ELSE [fin |-> FALSE] @@ End(counted, "none", <<>>, "none", "none")

\* Mutant of ClickNotFound: the message does not name the target.
ClickNotFound_Generic(calls, target) ==
    End(calls, "string", <<Lit("Error:"), Lit(" No element found.")>>,
        "notfound", "none")

\* return `Error: No element found for target "${target}".`
ClickNotFound(calls, target) ==
    End(calls, "string",
        <<Lit("Error:"), Lit(" No element found for target \""), Val(target),
          Lit("\".")>>,
        "notfound", "none")

\* Mutant of ClickElementExecute: the role-link block before the role-button block.
ClickElementExecute_LinkFirst(pg, target, failAt) ==
    LET l == Attempt(pg, target, "link", failAt, <<>>) IN
    IF l.fin THEN l ELSE
    LET b == Attempt(pg, target, "button", failAt, l.calls) IN
    IF b.fin THEN b ELSE
    LET t == Attempt(pg, target, "element", failAt, b.calls) IN
    IF t.fin THEN t ELSE
    LET c == Attempt(pg, target, "CSS", failAt, t.calls) IN
    IF c.fin THEN c ELSE
    ClickNotFound(c.calls, target)

ClickElementExecute(pg, target, failAt) ==
    LET b == Attempt(pg, target, "button", failAt, <<>>) IN
    IF b.fin THEN b ELSE
    LET l == Attempt(pg, target, "link", failAt, b.calls) IN
    IF l.fin THEN l ELSE
    LET t == Attempt(pg, target, "element", failAt, l.calls) IN
    IF t.fin THEN t ELSE
    LET c == Attempt(pg, target, "CSS", failAt, t.calls) IN
    IF c.fin THEN c ELSE
    ClickNotFound(c.calls, target)

\* parameters: z.object({ target: z.string() })
ClickElementParams(target) == target \in Targets

\* Which awaited call the environment fails: none (0) or the k-th.
FailPoints == 0..5

Click_Element ==
    \E target \in Targets, failAt \in FailPoints :
        /\ ClickElementParams(target)
        /\ Ready
        /\ last' = Invocation("Click_Element", <<target>>,
                              ClickElementExecute(page, target, failAt))
        /\ UNCHANGED <<page, fsVars, cliVars>>

(***************************************************************************)
(* Inputs of the other tools                                               *)
(***************************************************************************)
\* z.string().url(): the URLs the planner opens, and the document each
\* serves when the navigation commits.
Urls == { Str("https://shop.test/"), Str("about:blank") }

Document(url) ==
    IF url = Str("about:blank") THEN <<>>
    ELSE << [role |-> "button", name |-> Str("S"),       tag |-> "b", w |-> 1, h |-> 1],
            [role |-> "link",   name |-> Str2("S", "f"), tag |-> "a", w |-> 1, h |-> 1] >>

\* CSS selectors passed to the selector-only tools, and typed text.
Selectors == { Str("p"), Str("(") }
Texts     == { Str("s"), Str2("S", "f") }

\* A JavaScript number: finite, or one of Infinity and NaN.
Fin(n)  == [num |-> "finite", n |-> n]
Inf     == [num |-> "Infinity", n |-> 0]
NaN     == [num |-> "NaN", n |-> 0]
Numbers == { Fin(0), Fin(7), Inf, NaN }

\* z.number() (zod 3) rejects NaN and accepts every other number.
ZNumber(x) == x.num # "NaN"

\* Mutant of TryOne: the primitive is called once more after it threw.
TryOne_Retry(prim, arg, throws, cause, ok, caught) ==
    IF throws
    THEN End(<<Call(prim, "none", arg, 0, "throw"), Call(prim, "none", arg, 0, "ok")>>,
             "string", ok, "return", "none")
    ELSE End(<<Call(prim, "none", arg, 0, "ok")>>, "string", ok, "return", "none")

\* try { await <one primitive>; return ok } catch (e) { return caught(e.message) }
TryOne(prim, arg, throws, cause, ok, caught) ==
    IF throws
    THEN End(<<Call(prim, "none", arg, 0, "throw")>>, "string",
             caught \o <<Cause(cause)>>, "catch", "none")
    ELSE End(<<Call(prim, "none", arg, 0, "ok")>>, "string", ok, "return", "none")

(***************************************************************************)
(* Open_web_page.execute({ url }): no try block.                           *)
(***************************************************************************)
OpenWebPageExecute(url, failAt) ==
    IF Throws(failAt, <<>>)
    THEN End(<<Call("goto", "none", url, 0, "throw")>>,
             "raised", <<Cause(TimeoutError)>>, "raise", "none")
    ELSE
    LET gone == <<Call("goto", "none", url, 0, "ok")>> IN
    IF Throws(failAt, gone)
    THEN End(Append(gone, Call("waitForLoadState", "none", Str("networkidle"), 0, "throw")),
             "raised", <<Cause(TimeoutError)>>, "raise", "none")
    ELSE End(Append(gone, Call("waitForLoadState", "none", Str("networkidle"), 0, "ok")),
             "string",
             <<Lit("Successfully"), Lit(" opened web page: "), Val(url)>>,
             "return", "none")

\* The document after the call: a navigation that committed shows the URL's
\* document; one that threw may or may not have committed.
Navigated(e, url, old) ==
    IF e.calls[1].res = "ok" THEN { Document(url) } ELSE { old, Document(url) }

Open_web_page ==
    \E url \in Urls, failAt \in 0..2 :
        LET e == OpenWebPageExecute(url, failAt) IN
        /\ Ready
        /\ last' = Invocation("Open_web_page", <<url>>, e)
        /\ page' \in Navigated(e, url, page)
        /\ UNCHANGED <<fsVars, cliVars>>

(***************************************************************************)
(* GET_DOM_ELEMENTS.execute(): no try block, returns the array.            *)
(***************************************************************************)
\* "a, button, input[type=submit], input[type=button], [role='button'], [role='link']"
DomSelected(el) == el.tag \in {"a", "b"} \/ el.role \in {"button", "link"}

DomElements(pg) ==
    SelectSeq(pg, LAMBDA el : DomSelected(el) /\ el.w > 0 /\ el.h > 0)

GetDomElementsExecute(pg, failAt) ==
    IF Throws(failAt, <<>>)
    THEN End(<<Call("evaluate", "none", <<>>, 0, "throw")>>,
             "raised", <<Cause(TimeoutError)>>, "raise", "none")
    ELSE End(<<Call("evaluate", "none", <<>>, Len(DomElements(pg)), "ok")>>,
             "array",
             [i \in 1..Len(DomElements(pg)) |-> Val(DomElements(pg)[i].name)],
             "return", "none")

GET_DOM_ELEMENTS ==
    \E failAt \in 0..1 :
        /\ Ready
        /\ last' = Invocation("GET_DOM_ELEMENTS", <<>>,
                              GetDomElementsExecute(page, failAt))
        /\ UNCHANGED <<page, fsVars, cliVars>>

(***************************************************************************)
(* Fill_Input.execute({ selector, value })                                 *)
(***************************************************************************)
FillInputExecute(selector, value, failAt) ==
    TryOne("pressSequentially", <<selector, value>>,
           failAt = 1 \/ ~CssValid(selector),
           IF CssValid(selector) THEN TimeoutError ELSE SelectorError,
           <<Lit("Successfully"), Lit(" typed '"), Val(value), Lit("' into '"),
             Val(selector), Lit("'.")>>,
           <<Lit("Error:"), Lit(" Failed to fill input \""), Val(selector),
             Lit("\". Details: ")>>)

Fill_Input ==
    \E selector \in Selectors, value \in Texts, failAt \in 0..1 :
        /\ Ready
        /\ last' = Invocation("Fill_Input", <<selector, value>>,
                              FillInputExecute(selector, value, failAt))
        /\ UNCHANGED <<page, fsVars, cliVars>>

(***************************************************************************)
(* Screenshots.  A file name is a sequence of tokens, an extension being   *)
(* a token of its own; <<>> is a filename that is null, undefined or "".   *)
(***************************************************************************)
NoName     == <<>>
FileNames  == { NoName, <<"report">>, <<"report", ".png">> }
Extensions == { ".png", ".jpg" }

\* timestamp(): new Date().toISOString().replace(/[:.]/g, '-'), per clock
\* reading: the name has the millisecond in it.
Instants ==
    << "2026-01-01T00-00-00-000Z", "2026-01-01T00-00-00-001Z",
       "2026-01-01T00-00-00-002Z", "2026-01-01T00-00-01-000Z",
       "2026-01-01T00-00-01-001Z" >>

Timestamp(t) == Instants[t + 1]

\* The clock advances.
Tick ==
    /\ proc = "running"
    /\ now < MaxClock
    /\ now' = now + 1
    /\ UNCHANGED <<page, last, files, cliVars>>

\* page.screenshot({ path }) that resolved wrote the file, replacing what
\* was there.
Written(fs, e, session) ==
    IF e.calls[1].res = "ok"
    THEN [p \in DOMAIN fs \cup { e.calls[1].arg } |->
            IF p = e.calls[1].arg THEN session ELSE fs[p]]
    ELSE fs

\* path.extname: the last extension, unless the name is nothing but it.
ExtName(name) ==
    IF Len(name) > 1 /\ name[Len(name)] \in Extensions THEN name[Len(name)] ELSE ""

\* path.join(screenshotsDir, name)
FilePath(name) == <<"screenshots/">> \o name

\* Take_Screenshot.execute({ filename })
TakeScreenshot1Execute(filename, instant, failAt) ==
    LET finalFilename == IF filename # NoName THEN filename
                         ELSE <<"screenshot-", instant, ".png">>
        filePath == FilePath(finalFilename)
    IN  TryOne("screenshot", filePath, failAt = 1, TimeoutError,
               <<Lit("Successfully"), Lit(" saved screenshot to "), Val(filePath)>>,
               <<Lit("Error:"), Lit(" Failed to take screenshot. Details: ")>>)

Take_Screenshot ==
    \E filename \in FileNames, failAt \in 0..1 :
        LET e == TakeScreenshot1Execute(filename, Timestamp(now), failAt) IN
        /\ Ready
        /\ last' = Invocation("Take_Screenshot", <<filename>>, e)
        /\ files' = Written(files, e, "A")
        /\ UNCHANGED <<page, now, cliVars>>

\* takeScreenshot.execute({ filename })
TakeScreenshot2Execute(filename, instant, failAt) ==
    LET baseFilename == IF filename # NoName THEN filename
                        ELSE <<"screenshot-", instant>>
        withExt  == IF ExtName(baseFilename) = "" THEN Append(baseFilename, ".png")
                    ELSE baseFilename
        filePath == FilePath(withExt)
    IN  TryOne("screenshot", filePath, failAt = 1, TimeoutError,
               <<Lit("Screenshot"), Lit(" saved successfully at "), Val(filePath)>>,
               <<Lit("Failed"), Lit(" to take screenshot. Details: ")>>)

takeScreenshot ==
    \E filename \in FileNames, failAt \in 0..1 :
        LET e == TakeScreenshot2Execute(filename, Timestamp(now), failAt) IN
        /\ Ready
        /\ last' = Invocation("takeScreenshot", <<filename>>, e)
        /\ files' = Written(files, e, "A")
        /\ UNCHANGED <<page, now, cliVars>>

(***************************************************************************)
(* Task_Complete.execute({ summary })                                      *)
(***************************************************************************)
TaskCompleteExecute(summary) ==
    End(<<>>, "string",
        <<Lit("Task"), Lit(" successfully marked as complete.")>>, "return", "none")

Task_Complete ==
    \E summary \in Texts :
        /\ Ready
        /\ last' = Invocation("Task_Complete", <<summary>>, TaskCompleteExecute(summary))
        /\ UNCHANGED <<page, fsVars, cliVars>>

(***************************************************************************)
(* Get_Page_HTML / getPageHTML.  page.content() is the serialized          *)
(* document, which begins with its doctype or root tag; the model keeps    *)
(* its length.                                                             *)
(***************************************************************************)
HtmlLimit1 == 20000
HtmlLimit2 == 10000

DocLengths == { 50, 500, HtmlLimit2, HtmlLimit2 + 1, HtmlLimit1, HtmlLimit1 + 1 }

\* The first n characters of the document.
Html(n) == [k |-> "html", s |-> "", v |-> <<>>, n |-> n]

\* Mutant of Truncate: a document of exactly the limit is cut as well.
Truncate_AtLimit(len, limit, marker) ==
    IF len >= limit THEN <<Html(limit), Lit(marker)>> ELSE <<Html(len)>>

\* html.length > limit ? html.slice(0, limit) + marker : html
Truncate(len, limit, marker) ==
    IF len > limit THEN <<Html(limit), Lit(marker)>> ELSE <<Html(len)>>

\* const html = await page.content(): the call resolved with len characters.
ContentRead(e, len) ==
    IF e.calls[1].res = "ok" THEN [e EXCEPT !.calls[1].n = len] ELSE e

GetPageHtml1Execute(len, failAt) ==
    ContentRead(
        TryOne("content", <<>>, failAt = 1, TimeoutError,
               Truncate(len, HtmlLimit1, "... [HTML Truncated]"),
               <<Lit("Error:"), Lit(" Failed to get page HTML. Details: ")>>),
        len)

Get_Page_HTML ==
    \E len \in DocLengths, failAt \in 0..1 :
        /\ Ready
        /\ last' = Invocation("Get_Page_HTML", <<>>, GetPageHtml1Execute(len, failAt))
        /\ UNCHANGED <<page, fsVars, cliVars>>

GetPageHtml2Execute(len, failAt) ==
    ContentRead(
        TryOne("content", <<>>, failAt = 1, TimeoutError,
               Truncate(len, HtmlLimit2, "... [truncated]"),
               <<Lit("Failed"), Lit(" to get page HTML. Details: ")>>),
        len)

getPageHTML ==
    \E len \in DocLengths, failAt \in 0..1 :
        /\ Ready
        /\ last' = Invocation("getPageHTML", <<>>, GetPageHtml2Execute(len, failAt))
        /\ UNCHANGED <<page, fsVars, cliVars>>

(***************************************************************************)
(* goToPage.execute({ url })                                               *)
(***************************************************************************)
GoToPageExecute(url, failAt) ==
    TryOne("goto", url, failAt = 1, TimeoutError,
           <<Lit("Successfully"), Lit(" navigated to "), Val(url),
             Lit(" and the page is ready.")>>,
           <<Lit("Failed"),
             Lit(" to navigate or find the essential page elements. Details: ")>>)

goToPage ==
    \E url \in Urls, failAt \in 0..1 :
        LET e == GoToPageExecute(url, failAt) IN
        /\ Ready
        /\ last' = Invocation("goToPage", <<url>>, e)
        /\ page' \in Navigated(e, url, page)
        /\ UNCHANGED <<fsVars, cliVars>>

(***************************************************************************)
(* getPageElements.execute()                                               *)
(***************************************************************************)
\* 'a, button, input[type="submit"], input[type="button"], [role="button"], [onclick]'
PageSelected(el) == el.tag \in {"a", "b"} \/ el.role = "button"

PageElements(pg) == SelectSeq(pg, PageSelected)

GetPageElementsExecute(pg, failAt) ==
    LET e == TryOne("evaluate", <<>>, failAt = 1, TimeoutError,
                    <<Lit("Found"), Lit(" "), Num(Len(PageElements(pg))),
                      Lit(" interactive elements.")>>,
                    <<Lit("Failed"), Lit(" to get page elements. Details: ")>>)
    IN  e

getPageElements ==
    \E failAt \in 0..1 :
        /\ Ready
        /\ last' = Invocation("getPageElements", <<>>,
                              GetPageElementsExecute(page, failAt))
        /\ UNCHANGED <<page, fsVars, cliVars>>

(***************************************************************************)
(* fillField, scrollPage, typeText, clickAtCoordinates, dragAndDropElement *)
(***************************************************************************)
FillFieldExecute(selector, text, failAt) ==
    TryOne("fill", <<selector, text>>,
           failAt = 1 \/ ~CssValid(selector),
           IF CssValid(selector) THEN TimeoutError ELSE SelectorError,
           <<Lit("Successfully"), Lit(" filled \""), Val(selector), Lit("\".")>>,
           <<Lit("Failed"), Lit(" to fill field. Details: ")>>)

fillField ==
    \E selector \in Selectors, text \in Texts, failAt \in 0..1 :
        /\ Ready
        /\ last' = Invocation("fillField", <<selector, text>>,
                              FillFieldExecute(selector, text, failAt))
        /\ UNCHANGED <<page, fsVars, cliVars>>

ScrollPageExecute(scrollAmount, failAt) ==
    TryOne("wheel", <<Fin(0), scrollAmount>>, failAt = 1, TimeoutError,
           <<Lit("Successfully"), Lit(" scrolled by "), Val(scrollAmount),
             Lit(" pixels.")>>,
           <<Lit("Failed"), Lit(" to scroll. Details: ")>>)

scrollPage ==
    \E scrollAmount \in Numbers, failAt \in 0..1 :
        /\ ZNumber(scrollAmount)
        /\ Ready
        /\ last' = Invocation("scrollPage", <<scrollAmount>>,
                              ScrollPageExecute(scrollAmount, failAt))
        /\ UNCHANGED <<page, fsVars, cliVars>>

TypeTextExecute(text, failAt) ==
    TryOne("type", text, failAt = 1, TimeoutError,
           <<Lit("Successfully"), Lit(" typed \""), Val(text), Lit("\".")>>,
           <<Lit("Failed"), Lit(" to type text. Details: ")>>)

typeText ==
    \E text \in Texts, failAt \in 0..1 :
        /\ Ready
        /\ last' = Invocation("typeText", <<text>>, TypeTextExecute(text, failAt))
        /\ UNCHANGED <<page, fsVars, cliVars>>

ClickAtCoordinatesExecute(x, y, failAt) ==
    TryOne("mouse.click", <<x, y>>, failAt = 1, TimeoutError,
           <<Lit("Successfully"), Lit(" clicked at ("), Val(x), Lit(", "), Val(y),
             Lit(").")>>,
           <<Lit("Failed"), Lit(" to click at coordinates. Details: ")>>)

\* parameters: z.object({ x: z.number(), y: z.number() })
ClickAtCoordinatesParams(x, y) == ZNumber(x) /\ ZNumber(y)

clickAtCoordinates ==
    \E x \in Numbers, y \in Numbers, failAt \in 0..1 :
        /\ ClickAtCoordinatesParams(x, y)
        /\ Ready
        /\ last' = Invocation("clickAtCoordinates", <<x, y>>,
                              ClickAtCoordinatesExecute(x, y, failAt))
        /\ UNCHANGED <<page, fsVars, cliVars>>

DragAndDropElementExecute(sourceSelector, targetSelector, failAt) ==
    TryOne("dragAndDrop", <<sourceSelector, targetSelector>>,
           failAt = 1 \/ ~CssValid(sourceSelector) \/ ~CssValid(targetSelector),
           IF CssValid(sourceSelector) /\ CssValid(targetSelector)
           THEN TimeoutError ELSE SelectorError,
           <<Lit("Successfully"), Lit(" dragged \""), Val(sourceSelector),
             Lit("\" to \""), Val(targetSelector), Lit("\".")>>,
           <<Lit("Failed"), Lit(" to drag and drop. Details: ")>>)

dragAndDropElement ==
    \E sourceSelector \in Selectors, targetSelector \in Selectors, failAt \in 0..1 :
        /\ Ready
        /\ last' = Invocation("dragAndDropElement", <<sourceSelector, targetSelector>>,
                     DragAndDropElementExecute(sourceSelector, targetSelector, failAt))
        /\ UNCHANGED <<page, fsVars, cliVars>>

(***************************************************************************)
(* findElementsByText.execute({ text })                                    *)
(***************************************************************************)
\* The tree walker's filter, in traversal order.
\* Mutant of TextMatches: the comparison keeps the case.
TextMatches_CaseSensitive(pg, searchText) ==
    SelectSeq(pg, LAMBDA node :
        /\ node.name # <<>>
        /\ Includes(node.name, searchText)
        /\ node.w > 0 /\ node.h > 0)

\* The walk over the elements (innerText is their name): an element whose
\* innerText is the empty string is skipped by the `node.innerText &&` test.
TextMatches(pg, searchText) ==
    SelectSeq(pg, LAMBDA node :
        /\ node.name # <<>>
        /\ Includes(ToLowerCase(node.name), ToLowerCase(searchText))
        /\ node.w > 0 /\ node.h > 0)

\* elements.slice(0, 5), as the JSON of the message shows them.
FirstFive(elements) ==
    [i \in 1..(IF Len(elements) < 5 THEN Len(elements) ELSE 5) |-> Val(elements[i].name)]

FindElementsByTextExecute(pg, text, failAt) ==
    LET elements == TextMatches(pg, text) IN
    TryOne("evaluate", text, failAt = 1, TimeoutError,
           IF Len(elements) = 0
           THEN <<Lit("No"), Lit(" elements found with text \""), Val(text), Lit("\".")>>
           ELSE <<Lit("Found"), Lit(" "), Num(Len(elements)),
                  Lit(" elements with text \""), Val(text),
                  Lit("\".\nDetails (first 5):\n")>> \o FirstFive(elements),
           <<Lit("Failed"), Lit(" to search elements. Details: ")>>)

\* z.string() accepts the empty string as well.
SearchTexts == Texts \cup { <<>> }

findElementsByText ==
    \E text \in SearchTexts, failAt \in 0..1 :
        /\ Ready
        /\ last' = Invocation("findElementsByText", <<text>>,
                              FindElementsByTextExecute(page, text, failAt))
        /\ UNCHANGED <<page, fsVars, cliVars>>

\* The planner takes the outcome of the call it awaited (run(agent, message)).
Deliver ==
    /\ proc = "running"
    /\ last # Idle
    /\ last' = Idle
    /\ UNCHANGED <<page, fsVars, cliVars>>

\* A runAgentTask: where it stands, its browser (null, open or closed),
\* whether its catch block ran, how often browser.close() was called and
\* how its promise settled.
NotStarted ==
    [pc |-> "idle", browser |-> "null", failed |-> FALSE, closes |-> 0,
     settled |-> "pending"]

\* During `await run(agent, message)`.
Running == [NotStarted EXCEPT !.pc = "run", !.browser = "open"]

NoFiles == [p \in {} |-> "A"]

NoPeer == [page |-> <<>>, last |-> Idle]

\* One session whose agent runs, before its first tool call.
AgentRuns ==
    /\ last = Idle
    /\ now = 0
    /\ files = NoFiles
    /\ proc = "running"
    /\ task = [s \in Sessions |-> IF s = "A" THEN Running ELSE NotStarted]
    /\ peer = NoPeer

\* The tools of one session at work on any page.
Init ==
    /\ page \in Pages
    /\ AgentRuns

Next ==
    \/ Open_web_page
    \/ GET_DOM_ELEMENTS
    \/ Click_Element
    \/ Fill_Input
    \/ Take_Screenshot
    \/ Task_Complete
    \/ Get_Page_HTML
    \/ goToPage
    \/ takeScreenshot
    \/ getPageElements
    \/ getPageHTML
    \/ fillField
    \/ scrollPage
    \/ typeText
    \/ clickAtCoordinates
    \/ dragAndDropElement
    \/ findElementsByText
    \/ Deliver

Spec == Init /\ [][Next]_vars

(***************************************************************************)
(* The screenshot tools of one session while the clock advances.           *)
(***************************************************************************)
InitShots ==
    /\ page = <<>>
    /\ AgentRuns

NextShots ==
    \/ Tick
    \/ Take_Screenshot
    \/ takeScreenshot
    \/ Deliver

SpecShots == InitShots /\ [][NextShots]_vars

(***************************************************************************)
(* The text search of one session, on long pages of text elements: one     *)
(* that has the text "S", one without text (an image), one with the text   *)
(* "Sf" and no rendered width, and one with the text "f".                  *)
(***************************************************************************)
MaxNodes == 6

Nodes ==
    { [role |-> "none", name |-> Str("S"),       tag |-> "p",   w |-> 1, h |-> 1],
      [role |-> "none", name |-> <<>>,           tag |-> "img", w |-> 1, h |-> 1],
      [role |-> "none", name |-> Str2("S", "f"), tag |-> "p",   w |-> 0, h |-> 1],
      [role |-> "none", name |-> Str("f"),       tag |-> "p",   w |-> 1, h |-> 1] }

InitFind ==
    /\ page \in UNION { [1..n -> Nodes] : n \in 0..MaxNodes }
    /\ AgentRuns

NextFind ==
    \/ findElementsByText
    \/ Deliver

SpecFind == InitFind /\ [][NextFind]_vars

(***************************************************************************)
(* index.js: main() and runAgentTask.  Each 'line' event calls the async   *)
(* handler; readline does not wait for the promise of one handler before   *)
(* it emits the next line, so up to two runAgentTask calls are modelled,   *)
(* session A and session B, each with its own browser, page and tool set.  *)
(***************************************************************************)
Free(s) == task[s].pc \in { "idle", "done" }

\* rl.on('line', ...) with a task that is not empty and not "exit":
\* runAgentTask(task) runs up to its first await, chromium.launch.
Line_Task ==
    \E s \in Sessions :
        /\ proc = "running"
        /\ Free(s)
        /\ s = "B" => ~Free("A")
        /\ task' = [task EXCEPT ![s] = [NotStarted EXCEPT !.pc = "launch"]]
        /\ UNCHANGED <<page, last, fsVars, proc, peer>>

\* rl.on('line', ...) with "exit": rl.close() emits 'close', whose listener
\* calls process.exit(0), as does the process.exit(0) after it.
Line_Exit ==
    /\ proc = "running"
    /\ proc' = "exited"
    /\ UNCHANGED <<page, last, fsVars, task, peer>>

\* The input ends: .on('close', () => process.exit(0)).
Rl_Close ==
    /\ proc = "running"
    /\ proc' = "exited"
    /\ UNCHANGED <<page, last, fsVars, task, peer>>

\* browser = await chromium.launch(...): the browser, or a throw into catch.
Launch ==
    \E s \in Sessions, ok \in BOOLEAN :
        /\ proc = "running"
        /\ task[s].pc = "launch"
        /\ task' = [task EXCEPT ![s] =
                        IF ok THEN [@ EXCEPT !.pc = "newPage", !.browser = "open"]
                        ELSE [@ EXCEPT !.pc = "catch"]]
        /\ UNCHANGED <<page, last, fsVars, proc, peer>>

\* page = await browser.newPage(); createBrowserTools(page); new Agent(...):
\* a blank page and its tool set, or a throw of newPage or of
\* createBrowserTools (fs.mkdirSync) into catch.
NewPage ==
    \E s \in Sessions, outcome \in { "ok", "newPage throws", "createBrowserTools throws" } :
        /\ proc = "running"
        /\ task[s].pc = "newPage"
        /\ task' = [task EXCEPT ![s].pc = IF outcome = "ok" THEN "run" ELSE "catch"]
        /\ IF outcome = "newPage throws"
           THEN UNCHANGED <<page, peer>>
           ELSE IF s = "A"
                THEN page' = <<>> /\ UNCHANGED peer
                ELSE peer' = [peer EXCEPT !.page = <<>>] /\ UNCHANGED page
        /\ UNCHANGED <<last, fsVars, proc>>

\* await run(agent, message) settles, between two tool calls: with a result
\* (on to the 3 second timer) or with a rejection (into catch).
RunEnds ==
    \E s \in Sessions, ok \in BOOLEAN :
        /\ proc = "running"
        /\ task[s].pc = "run"
        /\ IF s = "A" THEN last = Idle ELSE peer.last = Idle
        /\ task' = [task EXCEPT ![s].pc = IF ok THEN "sleep" ELSE "catch"]
        /\ UNCHANGED <<page, last, fsVars, proc, peer>>

\* await new Promise(resolve => setTimeout(resolve, 3000))
Sleep ==
    \E s \in Sessions :
        /\ proc = "running"
        /\ task[s].pc = "sleep"
        /\ task' = [task EXCEPT ![s].pc = "finally"]
        /\ UNCHANGED <<page, last, fsVars, proc, peer>>

\* catch (error) { console.error(...) }
Catch ==
    \E s \in Sessions :
        /\ proc = "running"
        /\ task[s].pc = "catch"
        /\ task' = [task EXCEPT ![s] = [@ EXCEPT !.pc = "finally", !.failed = TRUE]]
        /\ UNCHANGED <<page, last, fsVars, proc, peer>>

\* Mutant of FinallyBrowser: the close is in the try block, after the timer.
FinallyBrowser_OnlyOnSuccess(t) ==
    IF t.browser # "null" /\ ~t.failed
    THEN [t EXCEPT !.browser = "closed", !.closes = @ + 1]
    ELSE t

\* finally { if (browser) { await browser.close(); } }
FinallyBrowser(t) ==
    IF t.browser # "null"
    THEN [t EXCEPT !.browser = "closed", !.closes = @ + 1]
    ELSE t

\* The finally block, and the return of runAgentTask to the line handler:
\* the catch block took the error, so the promise resolves.
Finally ==
    \E s \in Sessions :
        /\ proc = "running"
        /\ task[s].pc = "finally"
        /\ task' = [task EXCEPT ![s] =
                        [FinallyBrowser(@) EXCEPT !.pc = "done", !.settled = "resolved"]]
        /\ UNCHANGED <<page, last, fsVars, proc, peer>>

\* The planner of session B makes a tool call of its own tool set.
PeerReady ==
    /\ proc = "running"
    /\ task["B"].pc = "run"
    /\ peer.last = Idle

Peer_Open_web_page ==
    \E url \in Urls, failAt \in 0..2 :
        LET e == OpenWebPageExecute(url, failAt) IN
        /\ PeerReady
        /\ \E pg \in Navigated(e, url, peer.page) :
              peer' = [page |-> pg, last |-> Invocation("Open_web_page", <<url>>, e)]
        /\ UNCHANGED <<page, last, fsVars, proc, task>>

Peer_Take_Screenshot ==
    \E filename \in FileNames, failAt \in 0..1 :
        LET e == TakeScreenshot1Execute(filename, Timestamp(now), failAt) IN
        /\ PeerReady
        /\ peer' = [peer EXCEPT !.last = Invocation("Take_Screenshot", <<filename>>, e)]
        /\ files' = Written(files, e, "B")
        /\ UNCHANGED <<page, last, now, proc, task>>

Peer_takeScreenshot ==
    \E filename \in FileNames, failAt \in 0..1 :
        LET e == TakeScreenshot2Execute(filename, Timestamp(now), failAt) IN
        /\ PeerReady
        /\ peer' = [peer EXCEPT !.last = Invocation("takeScreenshot", <<filename>>, e)]
        /\ files' = Written(files, e, "B")
        /\ UNCHANGED <<page, last, now, proc, task>>

Peer_Deliver ==
    /\ proc = "running"
    /\ peer.last # Idle
    /\ peer' = [peer EXCEPT !.last = Idle]
    /\ UNCHANGED <<page, last, fsVars, proc, task>>

\* main(): the prompt is shown and no line has been read.
InitCli ==
    /\ page = <<>>
    /\ last = Idle
    /\ now = 0
    /\ files = NoFiles
    /\ proc = "running"
    /\ task = [s \in Sessions |-> NotStarted]
    /\ peer = NoPeer

NextCli ==
    \/ Line_Task
    \/ Line_Exit
    \/ Rl_Close
    \/ Launch
    \/ NewPage
    \/ RunEnds
    \/ Sleep
    \/ Catch
    \/ Finally
    \/ Open_web_page
    \/ Take_Screenshot
    \/ takeScreenshot
    \/ Deliver
    \/ Peer_Open_web_page
    \/ Peer_Take_Screenshot
    \/ Peer_takeScreenshot
    \/ Peer_Deliver

SpecCli == InitCli /\ [][NextCli]_vars

(***************************************************************************)
(* Properties                                                              *)
(***************************************************************************)
Invoked  == last.tool # "none"
Clicking == last.tool = "Click_Element"
Target   == last.args[1]

\* The indices of the calls of the invocation that satisfy P.
CallsWhere(P(_)) == { j \in 1..Len(last.calls) : P(last.calls[j]) }

NoCallThrew == CallsWhere(LAMBDA c : c.res = "throw") = {}

\* The outcome is a string that reports a failure: the return of a catch
\* block, or the return after the last strategy.
FailureString == last.out.type = "string" /\ last.branch \in {"catch", "notfound"}
SuccessString == last.out.type = "string" /\ last.branch = "return"

\* The text contains the interpolated value v.
Mentions(v) == \E i \in 1..Len(last.out.text) : last.out.text[i] = Val(v)
HasCause    == \E i \in 1..Len(last.out.text) : last.out.text[i].k = "cause"

\* C1: every invocation of every tool ends by returning a string; no
\* failure of a browser primitive escapes as a raised error.
C1_AlwaysReturnsString ==
    Invoked => last.out.type = "string"

\* The accessible name contains the target, compared case-insensitively.
NameMatches(name, target) == Includes(ToLowerCase(name), ToLowerCase(target))

ButtonNamed(target) ==
    \E i \in 1..Len(page) : page[i].role = "button" /\ NameMatches(page[i].name, target)

\* C2: whenever some role=button element's accessible name matches the
\* target case-insensitively (and no browser primitive fails), Click_Element
\* clicks a button and reports the role-button strategy, whatever else on
\* the page matches.
C2_ButtonWins ==
    (Clicking /\ ButtonNamed(Target) /\ NoCallThrew) =>
        /\ last.by = "button"
        /\ \E j \in 1..Len(last.calls) :
              /\ last.calls[j].prim = "click"
              /\ page[last.calls[j].n].role = "button"

\* The order of the cascade.
Strategies == <<"button", "link", "element", "CSS">>

Rank(by) == CHOOSE k \in 1..Len(Strategies) : Strategies[k] = by

CountedZero(by) ==
    \E i \in 1..Len(last.calls) :
        last.calls[i] = Call("count", by, Target, 0, "ok")

\* C3: the cascade is ordered and short-circuiting.  A strategy is queried
\* only after every earlier strategy was queried and returned zero matches;
\* a query with a match is followed by one click of that strategy and by
\* no further query; the strategy reported is the first, in the order
\* button, link, full text, CSS selector, with at least one match on the page.
C3_OrderedCascade ==
    Clicking =>
        /\ \A j \in 1..Len(last.calls) :
              LET c == last.calls[j] IN
              /\ c.prim = "count" =>
                    /\ j = Rank(c.by)
                    /\ \A k \in 1..(Rank(c.by) - 1) : CountedZero(Strategies[k])
                    /\ (c.res = "ok" /\ c.n > 0) =>
                          /\ Len(last.calls) = j + 1
                          /\ last.calls[j + 1].prim = "click"
                          /\ last.calls[j + 1].by = c.by
              /\ c.prim = "click" =>
                    /\ j > 1
                    /\ last.calls[j - 1].prim = "count"
                    /\ last.calls[j - 1].by = c.by
                    /\ last.calls[j - 1].n > 0
        /\ last.by # "none" =>
              /\ StrategyMatches(page, last.by, Target) # {}
              /\ \A k \in 1..(Rank(last.by) - 1) :
                    StrategyMatches(page, Strategies[k], Target) = {}

\* The CSS-selector strategy was reached and reported after three empty queries.
C3_Witness ==
    /\ Clicking
    /\ last.by = "CSS"
    /\ Len(last.calls) = 5

\* All four strategies were evaluated on the page and matched no element.
AllStrategiesEmpty ==
    /\ RegExpValid(Target)
    /\ CssValid(Target)
    /\ \A k \in 1..Len(Strategies) : StrategyMatches(page, Strategies[k], Target) = {}
    /\ NoCallThrew

C5_FailureLeavesPage ==
    (Clicking /\ FailureString) =>
        /\ CallsWhere(LAMBDA c : c.prim = "click" /\ c.res = "ok") = {}
        /\ \A j \in CallsWhere(LAMBDA c : c.res = "throw") : j = Len(last.calls)
        /\ last.branch = "notfound" => CallsWhere(LAMBDA c : c.prim = "click") = {}

\* The click primitive itself failed.
C5_Witness ==
    /\ Clicking
    /\ FailureString
    /\ CallsWhere(LAMBDA c : c.prim = "click" /\ c.res = "throw") # {}

\* C6: a successful Click_Element performs exactly one click, on the first
\* match in document order of the winning strategy.
C6_FirstMatchOnly ==
    (Clicking /\ SuccessString) =>
        LET clicks == CallsWhere(LAMBDA c : c.prim = "click") IN
        /\ Cardinality(clicks) = 1
        /\ \A j \in clicks :
              /\ last.calls[j].res = "ok"
              /\ last.calls[j].by = last.by
              /\ last.calls[j].n \in StrategyMatches(page, last.by, Target)
              /\ \A i \in StrategyMatches(page, last.by, Target) : last.calls[j].n <= i

\* The winning strategy had several matches.
C6_Witness ==
    /\ Clicking
    /\ SuccessString
    /\ Cardinality(StrategyMatches(page, last.by, Target)) > 1

\* The primitives that act on the page (count() only queries it).
IsAction(c) == c.prim # "count"

\* C7: no retry and no fall-through inside one invocation.  No action
\* primitive is called twice; a primitive that throws is the last call of
\* the invocation, which then ends in one failure outcome and reports no
\* strategy.
C7_NoRetry ==
    Invoked =>
        /\ \A i, j \in CallsWhere(IsAction) :
              last.calls[i].prim = last.calls[j].prim => i = j
        /\ \A j \in CallsWhere(LAMBDA c : c.res = "throw") :
              /\ j = Len(last.calls)
              /\ last.branch \in {"catch", "raise"}
              /\ last.by = "none"

\* The click of the role-button strategy failed while a link also matched.
C7_Witness ==
    /\ Clicking
    /\ last.calls # <<>>
    /\ Target = Str("s")
    /\ last.calls[Len(last.calls)] = Call("click", "button", Target, 1, "throw")
    /\ StrategyMatches(page, "link", Target) # {}

\* The first words that mark an outcome as a failure.
FailurePrefixes == { Lit("Error:"), Lit("Failed") }

\* C8: every failure outcome string begins with a failure prefix, and no
\* success outcome string does.
C8_FailurePrefix ==
    /\ FailureString => last.out.text[1] \in FailurePrefixes
    /\ SuccessString => last.out.text[1] \notin FailurePrefixes

C8_Witness ==
    /\ last.tool = "goToPage"
    /\ FailureString

TargetTools == { "Click_Element", "Fill_Input", "fillField", "dragAndDropElement" }

\* The selectors among the arguments: all of them, but for the typed text.
SelectorArgs ==
    IF last.tool \in {"Fill_Input", "fillField"} THEN { last.args[1] }
    ELSE { last.args[i] : i \in 1..Len(last.args) }

\* C9: every failure message of a tool that takes a target or selector
\* contains the target/selector as supplied and, when a primitive failed,
\* the cause string of the failure.
C9_MessageNamesTargetAndCause ==
    (last.tool \in TargetTools /\ FailureString) =>
        /\ \A sel \in SelectorArgs : Mentions(sel)
        /\ last.branch = "catch" => HasCause

Finite(x) == x.num = "finite"

\* C10: input is validated before any browser interaction.  An empty
\* Click_Element target, and a clickAtCoordinates x or y that is not a
\* finite number, is rejected with a failure outcome and no call on the page.
C10_ValidatedFirst ==
    /\ (Clicking /\ Target = <<>>) =>
          (FailureString /\ last.calls = <<>>)
    /\ (last.tool = "clickAtCoordinates" /\ ~(Finite(last.args[1]) /\ Finite(last.args[2]))) =>
          (FailureString /\ last.calls = <<>>)

HtmlTools == { "Get_Page_HTML", "getPageHTML" }

\* The get-markup call returned the markup of a document of DocLength characters.
MarkupReturned == last.tool \in HtmlTools /\ last.branch = "return"
DocLength      == last.calls[1].n

ShotTools == { "Take_Screenshot", "takeScreenshot" }

\* The path handed to page.screenshot.
ShotPath == last.calls[1].arg

\* The path is a directory, a base name and then one extension, not two.
EndsInOneExtension(path) ==
    /\ Len(path) > 2
    /\ path[Len(path)] \in Extensions
    /\ path[Len(path) - 1] \notin Extensions

\* C12: for every name hint and for an absent hint, the screenshot is
\* written to a path that ends in exactly one recognized image extension.
C12_OneExtension ==
    last.tool \in ShotTools => EndsInOneExtension(ShotPath)

\* C13: a screenshot call without a name hint that saves its file never
\* saves it at a path an earlier screenshot call already wrote, also when
\* both calls read the same clock value.
HintlessSave ==
    /\ last = Idle
    /\ last'.tool \in ShotTools
    /\ last'.args[1] = NoName
    /\ last'.calls[1].res = "ok"

C13_DistinctPaths ==
    [][HintlessSave => last'.calls[1].arg \notin DOMAIN files]_vars

ListTools == { "GET_DOM_ELEMENTS", "getPageElements" }

Listed == last.tool \in ListTools /\ last.branch = "return"

\* The number of elements the listing reports: the length of the returned
\* array, or the number in "Found N interactive elements.".
Reported ==
    IF last.tool = "GET_DOM_ELEMENTS" THEN Len(last.out.text)
    ELSE last.out.text[3].n

\* The elements the tool's selector selects that have a rendered size.
Rendered ==
    SelectSeq(page, LAMBDA el :
        /\ IF last.tool = "GET_DOM_ELEMENTS" THEN DomSelected(el) ELSE PageSelected(el)
        /\ el.w > 0
        /\ el.h > 0)

\* C14: on every page the listing of interactive elements reports exactly
\* the selected elements whose width and height are both positive: one with
\* width 0 or height 0 is not counted, one of width 1 and height 1 is.
C14_OnlyRendered == Listed => Reported = Len(Rendered)

Searched   == last.tool = "findElementsByText" /\ last.branch = "return"
SearchText == last.args[1]

\* The positions of the elements of the page that satisfy P.
Positions(P(_)) == { i \in 1..Len(page) : P(page[i]) }

\* The k-th smallest member of a set of positions.
RECURSIVE Nth(_, _)
Nth(S, k) ==
    LET least == CHOOSE i \in S : \A j \in S : i <= j
    IN  IF k = 1 THEN least ELSE Nth(S \ { least }, k - 1)

\* What the outcome of a search must be when M is the set of the positions
\* of the matching elements: none found, or their number and then the text
\* of the first five of them in the order of the document.
Reports(M) ==
    IF M = {}
    THEN last.out.text =
            <<Lit("No"), Lit(" elements found with text \""), Val(SearchText), Lit("\".")>>
    ELSE LET shown == IF Cardinality(M) < 5 THEN Cardinality(M) ELSE 5 IN
         /\ Len(last.out.text) = 6 + shown
         /\ last.out.text[1] = Lit("Found")
         /\ last.out.text[3] = Num(Cardinality(M))
         /\ \A k \in 1..shown : last.out.text[6 + k] = Val(page[Nth(M, k)].name)

Contains(el) == Includes(ToLowerCase(el.name), ToLowerCase(SearchText))
Sized(el)    == el.w > 0 /\ el.h > 0

\* C15 as stated: an element matches iff its text contains the search text
\* compared case-insensitively and it has a positive width and height.
C15_MatchesIffContains ==
    Searched => Reports(Positions(LAMBDA el : Contains(el) /\ Sized(el)))

\* C15 (amended): an element matches iff its text is not empty, contains
\* the search text compared case-insensitively, and it has a positive width
\* and height; the outcome gives the number of matches and the first five
\* of them in document order, and says that none was found when none matches.
C15_MatchesNonEmptyText ==
    Searched =>
        Reports(Positions(LAMBDA el : el.name # <<>> /\ Contains(el) /\ Sized(el)))

\* A search for "s" found six elements, "S" among them, and showed five.
C15_Witness ==
    /\ Searched
    /\ SearchText = Str("s")
    /\ last.out.text[1] = Lit("Found")
    /\ last.out.text[3].n = 6
    /\ Len(last.out.text) = 11
    /\ \E i \in 1..Len(page) : page[i].name = Str("S")

\* C16: two sessions driven concurrently are isolated: a tool call of one
\* session leaves the page and the call of the other alone, and a file
\* that one session wrote is never written by the other.
C16_Isolated ==
    [][ /\ (page' # page \/ last' # last) => peer' = peer
        /\ peer' # peer => (page' = page /\ last' = last)
        /\ \A p \in DOMAIN files : files'[p] = files[p] ]_vars

Launched(t) == t.browser # "null"

\* C17: when a runAgentTask has completed, its promise has resolved, a
\* browser it launched is closed, by one call of close(), whether or not
\* the catch block ran, and when the launch failed close() was not called.
C17_ClosedWhenDone ==
    \A s \in Sessions :
        task[s].pc = "done" =>
            /\ task[s].settled = "resolved"
            /\ Launched(task[s])  => task[s].browser = "closed" /\ task[s].closes = 1
            /\ ~Launched(task[s]) => task[s].failed /\ task[s].closes = 0

\* A task whose catch block ran after the launch has completed while the
\* other task failed to launch.
C17_Witness ==
    /\ task["A"].pc = "done" /\ task["A"].failed /\ task["A"].browser = "closed"
    /\ task["B"].pc = "done" /\ task["B"].browser = "null"

Active(s) == ~Free(s)

\* C18: at most one runAgentTask is under way at any time, and the process
\* does not exit while a task is under way with its browser not closed.
C18_OneAtATime ==
    /\ ~(Active("A") /\ Active("B"))
    /\ proc = "exited" => \A s \in Sessions : ~(Active(s) /\ task[s].browser = "open")

====
